---- MODULE Spec2Model ----
(***************************************************************************)
(* Model of package config (pars.go): the reflection-driven field walk     *)
(* (ParseWithFuncs / parseConfig / doParseField / set), the source         *)
(* resolver (parseRow / getFromAWS / getFromGCP), the built-in primitive   *)
(* parsers, the structured decoders and the ToConnectionString formatters. *)
(*                                                                         *)
(* A Go string is a sequence of one-character strings, so that Split, Cut, *)
(* Trim, formatting and parsing are computed character by character.       *)
(* A printable ASCII byte is the string of that character; the tab, line   *)
(* feed, form feed and carriage return are "\t", "\n", "\f", "\r"; any     *)
(* other byte is the token "x" followed by its two lower-case hexadecimal  *)
(* digits ("x01", "x7f", "xc3").                                           *)
(* A struct value is a record keyed by field name; a path is a sequence of *)
(* field names.                                                            *)
(***************************************************************************)
EXTENDS Integers, Sequences, FiniteSets, TLC

VARIABLES
    env,      \* process environment: key -> value (os.Getenv)
    AWS,      \* Parser.AWS is set (TRUE) or nil (FALSE)
    GCP,      \* Parser.GCP is set (TRUE) or nil (FALSE)
    target,   \* the argument v of ParseWithFuncs: its kind, struct type and pointee at the call
    obj,      \* the value v points to (a record keyed by field name)
    pc,       \* "idle" before the call, "walk" inside parseConfig, "done"
    stack,    \* parseConfig activations: <<[path, i]>>, innermost last
    parsers,  \* the registry built at pars.go:380-383: type -> "default" | "override"
    err,      \* the error ParseWithFuncs returned ("nil" for none, "panic" for a crash)
    last,     \* the latest doParseField call: its field, the value it held, what it returned
    trace,    \* environment reads and backend lookups, in order
    walked    \* the calls of doParseField so far, in order, each as in last

vars == <<env, AWS, GCP, target, obj, pc, stack, parsers, err, last, trace, walked>>

----------------------------------------------------------------------------
(* Strings                                                                 *)

\* index of the first c in s, 0 when absent (strings.Index + 1)
Index(s, c) ==
    IF \E i \in 1..Len(s) : s[i] = c
    THEN CHOOSE i \in 1..Len(s) : s[i] = c /\ \A j \in 1..(i-1) : s[j] # c
    ELSE 0

\* index of the last c in s, 0 when absent (strings.LastIndex + 1)
LastIndex(s, c) ==
    IF \E i \in 1..Len(s) : s[i] = c
    THEN CHOOSE i \in 1..Len(s) : s[i] = c /\ \A j \in (i+1)..Len(s) : s[j] # c
    ELSE 0

\* strings.Split(s, sep) for a one-character separator; Split("", sep) = [""]
RECURSIVE Split(_, _)
Split(s, sep) ==
    LET i == Index(s, sep) IN
    IF i = 0 THEN <<s>>
    ELSE <<SubSeq(s, 1, i-1)>> \o Split(SubSeq(s, i+1, Len(s)), sep)

\* strings.Cut(s, sep): text before and after the first sep
CutBefore(s, sep) == LET i == Index(s, sep) IN IF i = 0 THEN s ELSE SubSeq(s, 1, i-1)
CutAfter(s, sep)  == LET i == Index(s, sep) IN IF i = 0 THEN <<>> ELSE SubSeq(s, i+1, Len(s))

\* strings.Trim(s, cutset) for a one-character cutset
RECURSIVE TrimLeft(_, _)
TrimLeft(s, c) == IF s # <<>> /\ Head(s) = c THEN TrimLeft(Tail(s), c) ELSE s
RECURSIVE TrimRight(_, _)
TrimRight(s, c) ==
    IF s # <<>> /\ s[Len(s)] = c THEN TrimRight(SubSeq(s, 1, Len(s)-1), c) ELSE s
Trim(s, c) == TrimRight(TrimLeft(s, c), c)

HasPrefix(s, p) == Len(s) >= Len(p) /\ SubSeq(s, 1, Len(p)) = p

Reverse(s) == [i \in 1..Len(s) |-> s[Len(s) + 1 - i]]

Letters == {"a","b","c","d","e","f","g","h","i","j","k","l","m","n","o","p","q","r",
            "s","t","u","v","w","x","y","z",
            "A","B","C","D","E","F","G","H","I","J","K","L","M","N","O","P","Q","R",
            "S","T","U","V","W","X","Y","Z"}
DigitChars == <<"0","1","2","3","4","5","6","7","8","9">>
IsDigit(c) == \E d \in 1..10 : DigitChars[d] = c
DigitVal(c) == (CHOOSE d \in 1..10 : DigitChars[d] = c) - 1

----------------------------------------------------------------------------
(* Unbounded naturals as big-endian sequences of digits 0..9 without       *)
(* leading zeros (zero is <<>>): uint64 arithmetic of strconv exceeds the  *)
(* checker's native integers.                                              *)

RECURSIVE Norm(_)
Norm(m) == IF m # <<>> /\ Head(m) = 0 THEN Norm(Tail(m)) ELSE m

MagLess(a, b) ==
    \/ Len(a) < Len(b)
    \/ /\ Len(a) = Len(b)
       /\ \E i \in 1..Len(a) : a[i] < b[i] /\ \A j \in 1..(i-1) : a[j] = b[j]

MagLeq(a, b) == a = b \/ MagLess(a, b)

RECURSIVE AddLE(_, _, _)
AddLE(a, b, c) ==
    IF a = <<>> /\ b = <<>> THEN (IF c = 0 THEN <<>> ELSE <<c>>)
    ELSE LET x == IF a = <<>> THEN 0 ELSE Head(a)
             y == IF b = <<>> THEN 0 ELSE Head(b)
             s == x + y + c
         IN <<s % 10>> \o AddLE(IF a = <<>> THEN a ELSE Tail(a),
                                IF b = <<>> THEN b ELSE Tail(b), s \div 10)

MagAdd(a, b) == Reverse(AddLE(Reverse(a), Reverse(b), 0))

\* a - 1 for a > 0
RECURSIVE MagPredRaw(_)
MagPredRaw(a) ==
    LET n == Len(a) IN
    IF a[n] > 0 THEN [a EXCEPT ![n] = a[n] - 1]
    ELSE MagPredRaw(SubSeq(a, 1, n-1)) \o <<9>>
MagPred(a) == Norm(MagPredRaw(a))

\* 1 << k, for the bit sizes and the cutoffs the parsers use
Pow2(k) ==
    CASE k = 7 -> <<1,2,8>>
      [] k = 8 -> <<2,5,6>>
      [] k = 15 -> <<3,2,7,6,8>>
      [] k = 16 -> <<6,5,5,3,6>>
      [] k = 31 -> <<2,1,4,7,4,8,3,6,4,8>>
      [] k = 32 -> <<4,2,9,4,9,6,7,2,9,6>>
      [] k = 63 -> <<9,2,2,3,3,7,2,0,3,6,8,5,4,7,7,5,8,0,8>>
      [] k = 64 -> <<1,8,4,4,6,7,4,4,0,7,3,7,0,9,5,5,1,6,1,6>>

\* the decimal text of a magnitude
MagText(m) == IF m = <<>> THEN <<"0">> ELSE [i \in 1..Len(m) |-> DigitChars[m[i] + 1]]

\* a Go integer value: sign and magnitude (zero has neg = FALSE)
IntVal(neg, mag) == [neg |-> neg /\ mag # <<>>, mag |-> mag]

----------------------------------------------------------------------------
(* strconv                                                                 *)

MaxUint64 == MagPred(Pow2(64))

\* strconv.ParseUint(s, 10, bitSize): [n, err] with err in "nil", "syntax", "range"
RECURSIVE ParseUintLoop(_, _, _)
ParseUintLoop(s, n, maxVal) ==
    IF s = <<>> THEN [n |-> n, err |-> "nil"]
    ELSE IF ~IsDigit(Head(s)) THEN [n |-> <<>>, err |-> "syntax"]
    ELSE LET n1 == Norm(n \o <<DigitVal(Head(s))>>) IN
         \* n >= cutoff, n1 < n (wrap-around) and n1 > maxVal: the value leaves the range
         IF MagLess(MaxUint64, n1) \/ MagLess(maxVal, n1)
         THEN [n |-> maxVal, err |-> "range"]
         ELSE ParseUintLoop(Tail(s), n1, maxVal)

ParseUint(s, bitSize) ==
    IF s = <<>> THEN [n |-> <<>>, err |-> "syntax"]
    ELSE ParseUintLoop(s, <<>>, MagPred(Pow2(bitSize)))

\* strconv.ParseInt(s, 10, bitSize): [neg, n, err]; un is ParseUint of the
\* text after the sign, cutoff is 1 << (bitSize-1)
ParseIntSigned(neg, un, cutoff) ==
    IF un.err = "syntax" THEN [neg |-> FALSE, n |-> <<>>, err |-> "syntax"]
    ELSE IF ~neg /\ MagLeq(cutoff, un.n)
         THEN [neg |-> FALSE, n |-> MagPred(cutoff), err |-> "range"]
    ELSE IF neg /\ MagLess(cutoff, un.n)
         THEN [neg |-> TRUE, n |-> cutoff, err |-> "range"]
    ELSE [neg |-> neg /\ un.n # <<>>, n |-> un.n, err |-> "nil"]

ParseInt(s, bitSize) ==
    IF s = <<>> THEN [neg |-> FALSE, n |-> <<>>, err |-> "syntax"]
    ELSE ParseIntSigned(Head(s) = "-",
                        ParseUint(IF Head(s) \in {"+", "-"} THEN Tail(s) ELSE s, bitSize),
                        Pow2(bitSize - 1))

\* strconv.ParseBool(s): [b, err]
TrueTexts  == { <<"1">>, <<"t">>, <<"T">>, <<"t","r","u","e">>, <<"T","R","U","E">>,
                <<"T","r","u","e">> }
FalseTexts == { <<"0">>, <<"f">>, <<"F">>, <<"f","a","l","s","e">>,
                <<"F","A","L","S","E">>, <<"F","a","l","s","e">> }
ParseBool(s) ==
    IF s \in TrueTexts THEN [b |-> TRUE, err |-> "nil"]
    ELSE IF s \in FalseTexts THEN [b |-> FALSE, err |-> "nil"]
    ELSE [b |-> FALSE, err |-> "syntax"]

----------------------------------------------------------------------------
(* net/url, as used by the structured decoders: url.Parse and URL.Query.   *)
(* Percent-escapes and bracketed IPv6 hosts are outside the alphabet of    *)
(* the values explored and are not decoded. The scheme is parsed but not   *)
(* kept: no decoder reads it.                                              *)

\* getScheme, from character i on: [scheme, rest, err]
RECURSIVE getSchemeFrom(_, _)
getSchemeFrom(raw, i) ==
    IF i > Len(raw) THEN [scheme |-> <<>>, rest |-> raw, err |-> "nil"]
    ELSE IF raw[i] \in Letters THEN getSchemeFrom(raw, i + 1)
    ELSE IF IsDigit(raw[i]) \/ raw[i] \in {"+", "-", "."}
         THEN IF i = 1 THEN [scheme |-> <<>>, rest |-> raw, err |-> "nil"]
              ELSE getSchemeFrom(raw, i + 1)
    ELSE IF raw[i] = ":"
         THEN IF i = 1 THEN [scheme |-> <<>>, rest |-> <<>>, err |-> "missing protocol scheme"]
              ELSE [scheme |-> SubSeq(raw, 1, i-1), rest |-> SubSeq(raw, i+1, Len(raw)),
                    err |-> "nil"]
    ELSE [scheme |-> <<>>, rest |-> raw, err |-> "nil"]

\* validOptionalPort(port): "" or ":" followed by digits only
validOptionalPort(port) ==
    port = <<>> \/ (Head(port) = ":" /\ \A i \in 2..Len(port) : IsDigit(port[i]))

\* the bytes from 0x80 on
HighBytes ==
    { "x" \o h \o l : h \in {"8","9","a","b","c","d","e","f"},
                      l \in {"0","1","2","3","4","5","6","7","8","9","a","b","c","d","e","f"} }

\* ASCII characters a host may hold unescaped (shouldEscape(c, encodeHost) = false)
HostChars == Letters \cup {DigitChars[d] : d \in 1..10} \cup
             {"-", "_", ".", "~", "!", "$", "&", "'", "(", ")", "*", "+", ",", ";",
              "=", ":", "[", "]", "<", ">", "\""}

\* parseHost(host), i the place of its last colon: [host, err]; unescape in
\* host mode rejects a byte only if it is below 0x80 and needs escaping
parseHostAt(host, i) ==
    IF i # 0 /\ ~validOptionalPort(SubSeq(host, i, Len(host)))
    THEN [host |-> <<>>, err |-> "invalid port"]
    ELSE IF \E k \in 1..Len(host) :
               /\ host[k] \notin HighBytes
               /\ host[k] \notin HostChars
    THEN [host |-> <<>>, err |-> "invalid character in host name"]
    ELSE [host |-> host, err |-> "nil"]

\* characters validUserinfo accepts
AtSign == "@"
UserinfoChars == Letters \cup {DigitChars[d] : d \in 1..10} \cup
                 {"-", ".", "_", ":", "~", "!", "$", "&", "'", "(", ")", "*", "+", ",",
                  ";", "=", "%", AtSign}

NoAuthority == [hasUser |-> FALSE, username |-> <<>>, password |-> <<>>,
                passwordSet |-> FALSE, host |-> <<>>, err |-> "nil"]

\* parseAuthority after the host is parsed: i the place of the last "@" (0: none),
\* h the parsed host, ui the userinfo before the "@"
authorityOf(i, h, ui) ==
    IF h.err # "nil" THEN [NoAuthority EXCEPT !.err = h.err]
    ELSE IF i = 0 THEN [NoAuthority EXCEPT !.host = h.host]
    ELSE IF \E k \in 1..Len(ui) : ui[k] \notin UserinfoChars
         THEN [NoAuthority EXCEPT !.err = "invalid userinfo"]
    ELSE IF Index(ui, ":") = 0
         THEN [NoAuthority EXCEPT !.hasUser = TRUE, !.username = ui, !.host = h.host]
    ELSE [NoAuthority EXCEPT !.hasUser = TRUE, !.username = CutBefore(ui, ":"),
                             !.password = CutAfter(ui, ":"), !.passwordSet = TRUE,
                             !.host = h.host]

\* parseAuthority(authority), i the place of its last "at" sign:
\* [hasUser, username, password, passwordSet, host, err]
parseAuthorityAt(authority, i) ==
    authorityOf(i,
                parseHostAt(IF i = 0 THEN authority ELSE SubSeq(authority, i+1, Len(authority)),
                            LastIndex(IF i = 0 THEN authority
                                      ELSE SubSeq(authority, i+1, Len(authority)), ":")),
                SubSeq(authority, 1, i-1))

EmptyURL == [err |-> "nil", Opaque |-> <<>>, HasUser |-> FALSE,
             Username |-> <<>>, Password |-> <<>>, PasswordSet |-> FALSE,
             Host |-> <<>>, Path |-> <<>>, RawQuery |-> <<>>, Fragment |-> <<>>]

\* the URL once its authority a is parsed
urlFromAuthority(rawq, frag, a, path) ==
    IF a.err # "nil" THEN [EmptyURL EXCEPT !.err = a.err]
    ELSE [EmptyURL EXCEPT !.RawQuery = rawq, !.Fragment = frag,
                          !.HasUser = a.hasUser, !.Username = a.username,
                          !.Password = a.password, !.PasswordSet = a.passwordSet,
                          !.Host = a.host, !.Path = path]

\* auth0 is the text after "//": the authority runs to the first "/", the path follows
urlWithAuthority(rawq, frag, auth0, k) ==
    urlFromAuthority(rawq, frag,
                     parseAuthorityAt(IF k = 0 THEN auth0 ELSE SubSeq(auth0, 1, k-1),
                                      LastIndex(IF k = 0 THEN auth0 ELSE SubSeq(auth0, 1, k-1),
                                                AtSign)),
                     IF k = 0 THEN <<>> ELSE SubSeq(auth0, k, Len(auth0)))

\* parse, after the scheme and the query are split off
urlAfterQuery(scheme, rest, rawq, frag) ==
    IF ~HasPrefix(rest, <<"/">>) /\ scheme # <<>>
    THEN [EmptyURL EXCEPT !.RawQuery = rawq, !.Fragment = frag, !.Opaque = rest]
    ELSE IF ~HasPrefix(rest, <<"/">>) /\ Index(CutBefore(rest, "/"), ":") # 0
    THEN [EmptyURL EXCEPT !.err = "first path segment in URL cannot contain colon"]
    ELSE IF (scheme # <<>> \/ ~HasPrefix(rest, <<"/", "/", "/">>))
            /\ HasPrefix(rest, <<"/", "/">>)
    THEN urlWithAuthority(rawq, frag, SubSeq(rest, 3, Len(rest)),
                          Index(SubSeq(rest, 3, Len(rest)), "/"))
    ELSE [EmptyURL EXCEPT !.RawQuery = rawq, !.Fragment = frag, !.Path = rest]

\* a single trailing "?" sets ForceQuery and is dropped
urlAfterScheme(sc, frag) ==
    IF sc.err # "nil" THEN [EmptyURL EXCEPT !.err = sc.err]
    ELSE IF sc.rest # <<>> /\ Index(sc.rest, "?") = Len(sc.rest)
    THEN urlAfterQuery(sc.scheme, SubSeq(sc.rest, 1, Len(sc.rest) - 1), <<>>, frag)
    ELSE urlAfterQuery(sc.scheme, CutBefore(sc.rest, "?"), CutAfter(sc.rest, "?"), frag)

\* the bytes below 0x20, and 0x7f
CTLBytes ==
    {"\t", "\n", "\f", "\r", "x7f"} \cup
    { "x" \o h \o l : h \in {"0","1"},
                      l \in {"0","1","2","3","4","5","6","7","8","9","a","b","c","d","e","f"} }

\* stringContainsCTLByte(s)
stringContainsCTLByte(s) == \E i \in 1..Len(s) : s[i] \in CTLBytes

\* parse(rawURL, false) on the text before "#", then setFragment
urlParseNoFragment(u, frag) ==
    IF stringContainsCTLByte(u)
    THEN [EmptyURL EXCEPT !.err = "invalid control character in URL"]
    ELSE IF u = <<"*">> THEN [EmptyURL EXCEPT !.Path = u, !.Fragment = frag]
    ELSE urlAfterScheme(getSchemeFrom(u, 1), frag)

\* url.Parse(rawURL)
urlParse(rawURL) == urlParseNoFragment(CutBefore(rawURL, "#"), CutAfter(rawURL, "#"))

\* QueryUnescape on the explored alphabet: '+' decodes to a space
QueryUnescape(s) == [i \in 1..Len(s) |-> IF s[i] = "+" THEN " " ELSE s[i]]

\* url.ParseQuery: the key/value pairs in order (pairs holding ';' and empty pairs are dropped)
RECURSIVE ParseQuery(_)
ParseQueryPair(kv, more) ==
    IF Index(kv, ";") # 0 \/ kv = <<>> THEN more
    ELSE <<[key |-> QueryUnescape(CutBefore(kv, "=")),
            value |-> QueryUnescape(CutAfter(kv, "="))]>> \o more
ParseQuery(query) ==
    IF query = <<>> THEN <<>>
    ELSE ParseQueryPair(CutBefore(query, "&"), ParseQuery(CutAfter(query, "&")))

\* queryParams[key]: whether the key is present, and the first value v[0]
QueryHas(q, key) == \E i \in 1..Len(q) : q[i].key = key
QueryFirst(q, key) ==
    q[CHOOSE i \in 1..Len(q) : q[i].key = key /\ \A j \in 1..(i-1) : q[j].key # key].value
\* the value the decoders store for a key: v[0], or the default "" when absent
QueryOr(q, key) == IF QueryHas(q, key) THEN QueryFirst(q, key) ELSE <<>>

----------------------------------------------------------------------------
(* Structured types and their formatters                                   *)

\* the loop of ToConnectionString: elements joined by ","
RECURSIVE JoinHostPort(_)
JoinHostPort(hp) ==
    IF Len(hp) = 1 THEN hp[1] ELSE hp[1] \o <<",">> \o JoinHostPort(Tail(hp))

BoolText(b) == IF b THEN <<"t","r","u","e">> ELSE <<"f","a","l","s","e">>

Txt_authSource       == <<"a","u","t","h","S","o","u","r","c","e">>
\* the key the Mongo decoder reads (pars.go:278)
Txt_authSourceRead   == <<"a","u","t","h","S","o","u","r","c","w","a","h","t"," ","w","a","h","t"," ","w","a","h","t"," ","e">>

\* "<scheme>://<user>:<pass>@<hosts>", the part the four formats share
ConnectionPrefix(scheme, user, pass, hp) ==
    scheme \o <<":", "/", "/">> \o user \o <<":">> \o pass \o <<AtSign>> \o JoinHostPort(hp)

PostgresToConnectionString(p) ==
    ConnectionPrefix(<<"p","o","s","t","g","r","e","s">>, p.Username, p.Password, p.HostPort)
        \o <<"/">> \o p.Database \o <<"?">> \o <<"s","s","l","m","o","d","e">> \o <<"=">> \o p.Sslmode

MongoToConnectionString(m) ==
    ConnectionPrefix(<<"m","o","n","g","o","d","b">>, m.Username, m.Password, m.HostPort)
        \o <<"/", "?">> \o Txt_authSource \o <<"=">> \o m.AuthSource
        \o <<"&">> \o <<"r","e","p","l","i","c","a","S","e","t">> \o <<"=">> \o m.ReplicaSet

RedisToConnectionString(r) ==
    ConnectionPrefix(<<"r","e","d","i","s">>, r.Username, r.Password, r.HostPort)
        \o <<"/">> \o r.Database
        \o <<"?">> \o <<"c","l","u","s","t","e","r","M","o","d","e">> \o <<"=">> \o BoolText(r.ClusterMode)
        \o <<"&">> \o <<"s","e","n","t","i","n","e","l","M","a","s","t","e","r","I","D">> \o <<"=">> \o r.SentinelMasterID

KafkaToConnectionString(k) ==
    ConnectionPrefix(<<"k","a","f","k","a">>, k.Username, k.Password, k.HostPort)
        \o <<"/", "?">> \o <<"t","o","p","i","c">> \o <<"=">> \o k.Topic
        \o <<"&">> \o <<"g","r","o","u","p","I","D">> \o <<"=">> \o k.GroupID

----------------------------------------------------------------------------
(* defaultTypeParsers: the structured decoders. Each returns [err, val];   *)
(* u is url.Parse(v) and q is u.Query().                                   *)

\* the userinfo, host and path extraction the URL-shaped decoders share
UserOf(u) == IF u.HasUser THEN u.Username ELSE <<>>
PassOf(u) == IF u.HasUser /\ u.PasswordSet THEN u.Password ELSE <<>>
HostPortOf(u) == IF u.Host # <<>> THEN Split(u.Host, ",") ELSE << <<>> >>
DatabaseOf(u) == IF u.Path # <<>> THEN Trim(u.Path, "/") ELSE <<>>

Malformed == [err |-> "MalformedValue", val |-> <<>>]

PostgresFromURL(u, q) ==
    IF u.err # "nil" THEN Malformed
    ELSE [err |-> "nil",
          val |-> [Username |-> UserOf(u), Password |-> PassOf(u),
                   HostPort |-> HostPortOf(u), Database |-> DatabaseOf(u),
                   Sslmode  |-> QueryOr(q, <<"s","s","l","m","o","d","e">>)]]
PostgresParsed(u) == PostgresFromURL(u, ParseQuery(u.RawQuery))
PostgresParser(v) == PostgresParsed(urlParse(v))

\* cm is strconv.ParseBool of the clusterMode parameter, when it is present
RedisFromURL(u, q, cm) ==
    IF u.err # "nil" THEN Malformed
    ELSE IF cm.err # "nil" THEN [err |-> "UnsupportedBooleanLiteral", val |-> <<>>]
    ELSE [err |-> "nil",
          val |-> [Username |-> UserOf(u), Password |-> PassOf(u),
                   HostPort |-> HostPortOf(u), Database |-> DatabaseOf(u),
                   ClusterMode |-> cm.b,
                   SentinelMasterID |-> QueryOr(q, <<"s","e","n","t","i","n","e","l","M","a","s","t","e","r","I","D">>)]]
RedisWithQuery(u, q) ==
    RedisFromURL(u, q, IF QueryHas(q, <<"c","l","u","s","t","e","r","M","o","d","e">>)
                       THEN ParseBool(QueryFirst(q, <<"c","l","u","s","t","e","r","M","o","d","e">>))
                       ELSE [b |-> FALSE, err |-> "nil"])
RedisParsed(u) == RedisWithQuery(u, ParseQuery(u.RawQuery))
RedisParser(v) == RedisParsed(urlParse(v))

MongoFromURL(u, q) ==
    IF u.err # "nil" THEN Malformed
    ELSE [err |-> "nil",
          val |-> [Username |-> UserOf(u), Password |-> PassOf(u),
                   HostPort |-> HostPortOf(u),
                   AuthSource |-> QueryOr(q, Txt_authSourceRead),
                   ReplicaSet |-> QueryOr(q, <<"r","e","p","l","i","c","a","S","e","t">>)]]
MongoParsed(u) == MongoFromURL(u, ParseQuery(u.RawQuery))
MongoParser(v) == MongoParsed(urlParse(v))

KafkaFromURL(u, q) ==
    IF u.err # "nil" THEN Malformed
    ELSE [err |-> "nil",
          val |-> [Username |-> UserOf(u), Password |-> PassOf(u),
                   HostPort |-> HostPortOf(u),
                   Topic   |-> QueryOr(q, <<"t","o","p","i","c">>),
                   GroupID |-> QueryOr(q, <<"g","r","o","u","p","I","D">>)]]
KafkaParsed(u) == KafkaFromURL(u, ParseQuery(u.RawQuery))
KafkaParser(v) == KafkaParsed(urlParse(v))

\* arr is strings.Split(v, ",")
JWTFromTokens(arr) ==
    [err |-> "nil",
     val |-> [SigningKeyAT |-> arr[1],
              SigningKeyRT |-> IF Len(arr) = 2 THEN arr[2] ELSE arr[1]]]
JWTParser(v) == JWTFromTokens(Split(v, ","))

----------------------------------------------------------------------------
(* Integer conversions int8(i), uint16(i), ...: two's-complement           *)
(* truncation of a parsed value to the width of the field's kind.          *)

\* a - b for a >= b
RECURSIVE SubLE(_, _, _)
SubLE(a, b, borrow) ==
    IF a = <<>> THEN <<>>
    ELSE LET d == Head(a) - (IF b = <<>> THEN 0 ELSE Head(b)) - borrow
         IN <<IF d < 0 THEN d + 10 ELSE d>>
              \o SubLE(Tail(a), IF b = <<>> THEN b ELSE Tail(b), IF d < 0 THEN 1 ELSE 0)
MagSub(a, b) == Norm(Reverse(SubLE(Reverse(a), Reverse(b), 0)))

RECURSIVE MagMod(_, _)
MagMod(a, m) == IF MagLess(a, m) THEN a ELSE MagMod(MagSub(a, m), m)

\* the residue modulo m of a value with sign neg and magnitude residue r0
Residue(neg, r0, m) == IF neg /\ r0 # <<>> THEN MagSub(m, r0) ELSE r0

\* the residue r modulo m read as a signed (half = m/2) or unsigned value
FromResidue(r, m, half, signed) ==
    IF signed /\ MagLeq(half, r) THEN IntVal(TRUE, MagSub(m, r)) ELSE IntVal(FALSE, r)

\* the value v kept to w bits
ToWidth(v, w, signed) ==
    FromResidue(Residue(v.neg, MagMod(v.mag, Pow2(w)), Pow2(w)), Pow2(w), Pow2(w - 1), signed)

----------------------------------------------------------------------------
(* defaultBuiltInParsers: the parsers keyed by reflect.Kind. Each returns  *)
(* [err, val]. The float kinds are part of the map but no float field is   *)
(* explored, so ParseFloat is not modelled.                                *)

SignedKinds   == {"int", "int8", "int16", "int32", "int64"}
UnsignedKinds == {"uint", "uint8", "uint16", "uint32", "uint64"}
BuiltInKinds  == {"bool", "string"} \cup SignedKinds \cup UnsignedKinds

\* a variant of ParseBitSize in which every parser hands strconv the bitSize
\* of the reflect.Int parser, whatever the width of its kind
ParseBitSizeOfInt(kind) == 32

\* the bitSize each parser hands to strconv (pars.go:120-158)
ParseBitSize(kind) ==
    CASE kind \in {"int8", "uint8"}   -> 8
      [] kind \in {"int16", "uint16"} -> 16
      [] kind \in {"int", "int32", "uint", "uint32"} -> 32
      [] kind \in {"int64", "uint64"} -> 64

\* the width of the kind the parsed value is converted to (int and uint are 64-bit)
KindWidth(kind) ==
    CASE kind \in {"int8", "uint8"}   -> 8
      [] kind \in {"int16", "uint16"} -> 16
      [] kind \in {"int32", "uint32"} -> 32
      [] kind \in {"int", "uint", "int64", "uint64"} -> 64

IntErr(e) == IF e = "range" THEN "NumericRangeOverflow"
             ELSE IF e = "syntax" THEN "MalformedValue" ELSE "nil"

\* return int8(i), err: r is what strconv returned
SignedResult(kind, r) ==
    [err |-> IntErr(r.err), val |-> ToWidth(IntVal(r.neg, r.n), KindWidth(kind), TRUE)]
UnsignedResult(kind, r) ==
    [err |-> IntErr(r.err), val |-> ToWidth(IntVal(FALSE, r.n), KindWidth(kind), FALSE)]
BoolResult(r) == [err |-> IF r.err = "nil" THEN "nil" ELSE "MalformedValue", val |-> r.b]

SignedParser(kind, v)   == SignedResult(kind, ParseInt(v, ParseBitSize(kind)))
UnsignedParser(kind, v) == UnsignedResult(kind, ParseUint(v, ParseBitSize(kind)))

defaultBuiltInParsers(kind, v) ==
    CASE kind = "bool"   -> BoolResult(ParseBool(v))
      [] kind = "string" -> [err |-> "nil", val |-> v]
      [] kind \in SignedKinds   -> SignedParser(kind, v)
      [] kind \in UnsignedKinds -> UnsignedParser(kind, v)

----------------------------------------------------------------------------
(* The parser registry (map[reflect.Type]ParserFunc): a function from type *)
(* name to "default" (a built-in structured decoder) or "override" (the    *)
(* caller's ParserFunc for that type).                                     *)

\* the keys of defaultTypeParsers() that are explored (url.URL and time.Duration
\* are keys of the map too; no field of those types is explored)
StructuredTypes == {"Postgres", "Redis", "Mongo", "Kafka", "JWT"}

defaultTypeParsers == [tn \in StructuredTypes |-> "default"]

StructuredParser(tn, v) ==
    CASE tn = "Postgres" -> PostgresParser(v)
      [] tn = "Redis"    -> RedisParser(v)
      [] tn = "Mongo"    -> MongoParser(v)
      [] tn = "Kafka"    -> KafkaParser(v)
      [] tn = "JWT"      -> JWTParser(v)

\* the caller's ParserFunc values explored as overrides: for string a parser
\* that prefixes "!", for JWT one that keeps the whole text as the access key,
\* for []string one that splits on ","
OverrideParser(tn, v) ==
    CASE tn = "string"   -> [err |-> "nil", val |-> <<"!">> \o v]
      [] tn = "JWT"      -> [err |-> "nil", val |-> [SigningKeyAT |-> v, SigningKeyRT |-> <<>>]]
      [] tn = "[]string" -> [err |-> "nil", val |-> Split(v, ",")]

\* parserFunc(value) for the entry the registry holds under tn
ApplyParser(which, tn, v) ==
    IF which = "override" THEN OverrideParser(tn, v) ELSE StructuredParser(tn, v)

\* pars.go:380-383: the built-ins, then every entry of funcMap written over them
MergeParsers(funcMap) ==
    [tn \in (DOMAIN defaultTypeParsers) \cup funcMap |->
        IF tn \in funcMap THEN "override" ELSE defaultTypeParsers[tn]]

----------------------------------------------------------------------------
(* Values and field descriptors                                            *)

\* a pointer field: nil, or pointing to an allocated value
PtrNil    == [nil |-> TRUE, elem |-> <<>>]
PtrTo(v)  == [nil |-> FALSE, elem |-> <<v>>]

\* reflect.StructField with the part of reflect.Type the walk reads:
\* tn is the type name (of the pointee for a pointer field), kind its Kind,
\* fields the fields of a struct type
FD(name, tag, exported, ptr, tn, kind, fields) ==
    [name |-> name, tag |-> tag, exported |-> exported, ptr |-> ptr,
     tn |-> tn, kind |-> kind, fields |-> fields]

\* the value of the field at path inside struct value v
RECURSIVE GetAt(_, _)
GetAt(v, path) == IF path = <<>> THEN v ELSE GetAt(v[Head(path)], Tail(path))

\* v with the field at path replaced by x
RECURSIVE PutAt(_, _, _)
PutAt(v, path, x) ==
    IF path = <<>> THEN x
    ELSE [v EXCEPT ![Head(path)] = PutAt(v[Head(path)], Tail(path), x)]

\* the descriptor of the field called name
FieldNamed(fields, name) == fields[CHOOSE k \in 1..Len(fields) : fields[k].name = name]

\* the fields of the struct type reached from fields by path
RECURSIVE FieldsAt(_, _)
FieldsAt(fields, path) ==
    IF path = <<>> THEN fields
    ELSE FieldsAt(FieldNamed(fields, Head(path)).fields, Tail(path))

----------------------------------------------------------------------------
(* Source resolver                                                         *)

Txt_aws == <<"a","w","s">>
Txt_gcp == <<"g","c","p">>

\* os.Getenv: the value of the key, "" when unset
Getenv(key) == IF key \in DOMAIN env THEN env[key] ELSE <<>>

\* the backend call of getFromAWS / getFromGCP: resp is what the service answers
Lookup(backend, key, resp) ==
    IF ~resp.ok
    THEN [value |-> <<>>, err |-> "SecretFetchFailed", panic |-> FALSE,
          events |-> <<[op |-> backend, key |-> key]>>]
    ELSE [value |-> resp.s, err |-> "nil", panic |-> FALSE,
          events |-> <<[op |-> backend, key |-> key]>>]

NotConfigured(key) ==
    [value |-> key, err |-> "BackendNotConfigured", panic |-> FALSE, events |-> <<>>]

\* a variant of getFromAWS that, without a session, hands back the key as the
\* value instead of failing
getFromAWSFallback(key, resp) ==
    IF ~AWS THEN [NotConfigured(key) EXCEPT !.err = "nil"] ELSE Lookup("aws", key, resp)

\* getFromAWS(key)
getFromAWS(key, resp) == IF ~AWS THEN NotConfigured(key) ELSE Lookup("aws", key, resp)

\* getFromGCP(key)
getFromGCP(key, resp) == IF ~GCP THEN NotConfigured(key) ELSE Lookup("gcp", key, resp)

\* the os.Getenv call of parseRow, put before what the backend did
AfterRead(key, r) == [r EXCEPT !.events = <<[op |-> "env", key |-> key]>> \o r.events]

\* parseRow after the split: arrVal[1] is read without a length check, so a
\* value that is exactly "aws" or "gcp" indexes past the end of arrVal and panics
parseRowSplit(key, value, arrVal, resp) ==
    IF arrVal[1] \in {Txt_aws, Txt_gcp} /\ Len(arrVal) < 2
    THEN AfterRead(key, [value |-> <<>>, err |-> "nil", panic |-> TRUE, events |-> <<>>])
    ELSE IF arrVal[1] = Txt_aws THEN AfterRead(key, getFromAWS(arrVal[2], resp))
    ELSE IF arrVal[1] = Txt_gcp THEN AfterRead(key, getFromGCP(arrVal[2], resp))
    ELSE AfterRead(key, [value |-> value, err |-> "nil", panic |-> FALSE, events |-> <<>>])

\* parseRow(value): [value, err, panic, events]
parseRow(key, resp) == parseRowSplit(key, Getenv(key), Split(Getenv(key), ":"), resp)

----------------------------------------------------------------------------
(* set and doParseField                                                    *)

Unchanged(fieldVal) == [err |-> "nil", panic |-> FALSE, assigned |-> FALSE, val |-> fieldVal]

\* fieldee.Set(reflect.ValueOf(val)) after parserFunc returned r; field.Elem()
\* of a nil pointer is the zero Value, and Set on it panics
setParsed(fd, fieldVal, r) ==
    IF r.err # "nil" THEN [Unchanged(fieldVal) EXCEPT !.err = r.err]
    ELSE IF fd.ptr /\ fieldVal.nil THEN [Unchanged(fieldVal) EXCEPT !.panic = TRUE]
    ELSE [Unchanged(fieldVal) EXCEPT !.assigned = TRUE,
                                     !.val = IF fd.ptr THEN PtrTo(r.val) ELSE r.val]

\* set(field, sf, value, funcMap): [err, panic, assigned, val]; val is the
\* field's value afterwards
set(fd, fieldVal, value, funcMap) ==
    IF fd.tn \in DOMAIN funcMap
    THEN setParsed(fd, fieldVal, ApplyParser(funcMap[fd.tn], fd.tn, value))
    ELSE IF fd.kind \in BuiltInKinds
    THEN setParsed(fd, fieldVal, defaultBuiltInParsers(fd.kind, value))
    ELSE Unchanged(fieldVal)

Txt_notEmpty == <<"n","o","t","E","m","p","t","y">>

\* a variant of HasNotEmpty in which the notEmpty case never sets the flag
HasNotEmptyNever(opts) == FALSE

\* the loop over tags[1:]: an option that is neither "" nor notEmpty
UnsupportedOption(opts) == \E i \in 1..Len(opts) : opts[i] \notin {<<>>, Txt_notEmpty}
HasNotEmpty(opts) == \E i \in 1..Len(opts) : opts[i] = Txt_notEmpty

\* a variant of IsStruct in which no field is taken to be a record
IsStructNever(fd) == FALSE

\* refField.Kind() == reflect.Struct (pars.go:435): a pointer field has Kind Ptr
IsStruct(fd) == ~fd.ptr /\ fd.kind = "struct"

\* parseRow has not been called
NoRow == [value |-> <<>>, err |-> "nil", panic |-> FALSE, events |-> <<>>]

\* the result of doParseField: [err, panic, act, row, val]; row is what
\* parseRow returned, val the field's value afterwards;
\* act: "set" (a parser assigned val), "noparser" (value present, no parser),
\* "recurse" (parseConfig is called on the field), "skip" (nothing to do), "fail"
FieldResult(error, panic, act, row, val) ==
    [err |-> error, panic |-> panic, act |-> act, row |-> row, val |-> val]

\* return set(...) (pars.go:432): st is what set returned
doParseFieldSet(fieldVal, row, st) ==
    IF st.panic THEN FieldResult("nil", TRUE, "fail", row, fieldVal)
    ELSE IF st.err # "nil" THEN FieldResult(st.err, FALSE, "fail", row, fieldVal)
    ELSE FieldResult("nil", FALSE, IF st.assigned THEN "set" ELSE "noparser", row, st.val)

\* doParseField after parseRow returned row (pars.go:410-439); set is handed
\* the built-in registry, not funcMap
doParseFieldRow(fd, fieldVal, funcMap, opts, row) ==
    IF row.panic THEN FieldResult("nil", TRUE, "fail", row, fieldVal)
    ELSE IF row.err # "nil" THEN FieldResult(row.err, FALSE, "fail", row, fieldVal)
    ELSE IF UnsupportedOption(opts)
         THEN FieldResult("UnsupportedTagOption", FALSE, "fail", row, fieldVal)
    ELSE IF HasNotEmpty(opts) /\ row.value = <<>>
         THEN FieldResult("RequiredValueMissing", FALSE, "fail", row, fieldVal)
    ELSE IF row.value # <<>>
         THEN doParseFieldSet(fieldVal, row, set(fd, fieldVal, row.value, defaultTypeParsers))
    ELSE IF IsStruct(fd)
         THEN FieldResult("nil", FALSE, "recurse", row, fieldVal)
    ELSE FieldResult("nil", FALSE, "skip", row, fieldVal)

\* tags is strings.Split(refTypeField.Tag.Get("config"), ",")
doParseFieldTags(fd, fieldVal, funcMap, tags, resp) ==
    doParseFieldRow(fd, fieldVal, funcMap, Tail(tags), parseRow(tags[1], resp))

\* doParseField(refField, refTypeField, funcMap)
doParseField(fd, fieldVal, funcMap, resp) ==
    IF ~fd.exported
    THEN FieldResult("FieldNotSettable", FALSE, "fail", NoRow, fieldVal)
    ELSE doParseFieldTags(fd, fieldVal, funcMap, Split(fd.tag, ","), resp)

----------------------------------------------------------------------------
(* The caller's records                                                    *)

StrF(name, tag)   == FD(name, tag, TRUE, FALSE, "string", "string", <<>>)
ListF(name, tag)  == FD(name, tag, TRUE, FALSE, "[]string", "slice", <<>>)
IntF(name, tag, kind) == FD(name, tag, TRUE, FALSE, kind, kind, <<>>)
BoolF(name, tag)  == FD(name, tag, TRUE, FALSE, "bool", "bool", <<>>)

\* the fields of the package's structured types (none carries a config tag)
JWTFields      == <<StrF("SigningKeyAT", <<>>), StrF("SigningKeyRT", <<>>)>>
PostgresFields == <<StrF("Username", <<>>), StrF("Password", <<>>), ListF("HostPort", <<>>),
                    StrF("Database", <<>>), StrF("Sslmode", <<>>)>>
MongoFields    == <<StrF("Username", <<>>), StrF("Password", <<>>), ListF("HostPort", <<>>),
                    StrF("AuthSource", <<>>), StrF("ReplicaSet", <<>>)>>
RedisFields    == <<StrF("Username", <<>>), StrF("Password", <<>>), ListF("HostPort", <<>>),
                    StrF("Database", <<>>), BoolF("ClusterMode", <<>>),
                    StrF("SentinelMasterID", <<>>)>>
KafkaFields    == <<StrF("Username", <<>>), StrF("Password", <<>>), ListF("HostPort", <<>>),
                    StrF("Topic", <<>>), StrF("GroupID", <<>>)>>

StructuredFields(tn) ==
    CASE tn = "JWT"      -> JWTFields
      [] tn = "Postgres" -> PostgresFields
      [] tn = "Mongo"    -> MongoFields
      [] tn = "Redis"    -> RedisFields
      [] tn = "Kafka"    -> KafkaFields

StructuredF(name, tag, tn) == FD(name, tag, TRUE, FALSE, tn, "struct", StructuredFields(tn))
\* a record type of the caller's own
InnerF(name, tag, fields) == FD(name, tag, TRUE, FALSE, "Inner", "struct", fields)
PtrF(fd)    == [fd EXCEPT !.ptr = TRUE]
Unexported(fd) == [fd EXCEPT !.exported = FALSE]

\* the value a field holds before the call: its zero value, or (dirty) a value
\* the caller stored earlier; a pointer field is nil or (alloc) points to storage
RECURSIVE InitialValue(_, _, _)
InitialElem(fd, dirty, alloc) ==
    CASE fd.kind = "string" -> IF dirty THEN <<"o">> ELSE <<>>
      [] fd.kind = "slice"  -> IF dirty THEN << <<"o">> >> ELSE <<>>
      [] fd.kind = "bool"   -> dirty
      [] fd.kind \in SignedKinds \cup UnsignedKinds ->
            IntVal(FALSE, IF dirty THEN <<7>> ELSE <<>>)
      [] fd.kind = "struct" ->
            [n \in {fd.fields[i].name : i \in 1..Len(fd.fields)} |->
                InitialValue(FieldNamed(fd.fields, n), dirty, alloc)]
InitialValue(fd, dirty, alloc) ==
    IF ~fd.ptr THEN InitialElem(fd, dirty, alloc)
    ELSE IF alloc THEN PtrTo(InitialElem(fd, dirty, alloc)) ELSE PtrNil

\* a pointer to a record with these fields
StructTarget(fields, dirty, alloc) ==
    [argKind |-> "ptr_struct", fields |-> fields,
     obj0 |-> InitialValue(InnerF("", <<>>, fields), dirty, alloc)]

\* an argument that is not a pointer to a record: a record passed by value,
\* untyped nil, a nil *struct, and pointers to a string, a slice and a map
OtherTargets ==
    { [argKind |-> k, fields |-> <<>>, obj0 |-> <<"o">>] :
        k \in {"nonptr", "nil", "nilptr", "ptr_prim", "ptr_slice", "ptr_map"} }

KeyA == <<"A">>
KeyB == <<"B">>
EnvKeys == {KeyA, KeyB}
OptNotEmpty == <<",">> \o Txt_notEmpty

\* the record types explored by the field walk
Schemas ==
    { <<StrF("S", KeyA \o OptNotEmpty), IntF("N", KeyB, "int8")>>,
      <<InnerF("In", <<>>, <<StrF("X", KeyA), ListF("L", KeyB)>>), StrF("S", KeyB)>>,
      <<InnerF("In", KeyA, <<StrF("X", KeyB \o OptNotEmpty)>>), StructuredF("J", KeyB, "JWT")>>,
      <<InnerF("In", KeyA \o OptNotEmpty, <<StrF("X", KeyB)>>), StrF("S", KeyB)>>,
      <<PtrF(StrF("P", KeyA \o OptNotEmpty)), PtrF(InnerF("Q", KeyB, <<StrF("X", KeyA)>>))>>,
      <<StructuredF("J", KeyA \o OptNotEmpty, "JWT"), Unexported(StrF("u", KeyB))>>,
      <<StrF("S", KeyA \o <<",","r","e","q","u","i","r","e","d">>), StrF("T", KeyB)>>,
      <<StrF("S", KeyA \o <<",">>), ListF("L", KeyB \o OptNotEmpty)>>,
      <<StrF("S", <<>>), StrF("T", KeyA \o <<",","r","e","q","u","i","r","e","d">> \o OptNotEmpty)>> }

\* the arguments explored: a pointer to a record of each type, zero or holding
\* earlier values, its pointer fields nil or allocated; and the other kinds
Targets ==
    { StructTarget(f, d, a) : f \in Schemas, d \in BOOLEAN, a \in BOOLEAN } \cup OtherTargets

\* the environment values explored
EnvValues ==
    { <<>>, <<"5">>, <<"a",",","b">>, Txt_aws, Txt_gcp, <<"a","w","s",":","k">>, <<"g","c","p",":","k">>, <<"a","w","s",":","a",":","b">>, <<"x",":","y">> }

\* what a backend answers when asked (the text of output.String()): a plain
\* text, a text that itself looks like an indirection, the empty text, or an error
Responses ==
    { [ok |-> TRUE, s |-> <<"s">>], [ok |-> TRUE, s |-> <<"a","w","s",":","k">>],
      [ok |-> TRUE, s |-> <<>>], [ok |-> FALSE, s |-> <<>>] }

\* the funcMap arguments explored (sets of types that carry an override)
FuncMaps == { {"string"}, {"JWT", "[]string"}, {"string", "JWT", "[]string"} }

----------------------------------------------------------------------------
(* The state machine                                                       *)

\* last: the field doParseField was last called on, the value it held, and
\* what the call returned
NoLast == [path |-> <<>>, fd |-> FD("", <<>>, TRUE, FALSE, "", "", <<>>), old |-> <<>>,
           res |-> FieldResult("nil", FALSE, "none", NoRow, <<>>)]
NoParsers == [tn \in {} |-> "default"]

\* target: the argument of the call, with obj0 the value it points to at the
\* time of the call; obj: the value it points to now
InitWith(t) ==
    /\ target = t
    /\ obj = t.obj0
    /\ pc = "idle"
    /\ stack = <<>>
    /\ parsers = NoParsers
    /\ err = "nil"
    /\ last = NoLast
    /\ trace = <<>>
    /\ walked = <<>>

Init ==
    /\ env \in [EnvKeys -> EnvValues]
    /\ AWS \in BOOLEAN
    /\ GCP \in BOOLEAN
    /\ \E t \in Targets : InitWith(t)

\* ParseWithFuncs(v, funcMap), up to the call of parseConfig (pars.go:371-385)
ParseWithFuncs(funcMap) ==
    /\ pc = "idle"
    /\ IF target.argKind \in {"nonptr", "nil"}
       THEN /\ pc' = "done"
            /\ err' = "NotAPointer"
            /\ UNCHANGED <<stack, parsers>>
       ELSE IF target.argKind # "ptr_struct"
       THEN /\ pc' = "done"
            /\ err' = "NotAStruct"
            /\ UNCHANGED <<stack, parsers>>
       ELSE /\ pc' = "walk"
            /\ parsers' = MergeParsers(funcMap)
            /\ stack' = <<[path |-> <<>>, i |-> 1]>>
            /\ UNCHANGED err
    /\ UNCHANGED <<env, AWS, GCP, target, obj, last, trace, walked>>

\* Parse(v) (pars.go:366-368)
Parse == ParseWithFuncs({})

Top == stack[Len(stack)]
\* a variant of TopFields in which the loop of parseConfig runs from the last
\* declared field to the first
TopFieldsReversed ==
    [i \in 1..Len(FieldsAt(target.fields, Top.path)) |->
        FieldsAt(target.fields, Top.path)[Len(FieldsAt(target.fields, Top.path)) + 1 - i]]
\* the fields of the record the innermost activation walks (refType.Field(i))
TopFields == FieldsAt(target.fields, Top.path)

\* the effect of doParseField returning r for the field at path: an error or a
\* panic unwinds every activation, a nested record gets an activation of its own
FieldDone(fd, path, r) ==
    /\ trace' = trace \o r.row.events
    /\ last' = [path |-> path, fd |-> fd, old |-> GetAt(obj, path), res |-> r]
    /\ walked' = Append(walked, [path |-> path, fd |-> fd, old |-> GetAt(obj, path), res |-> r])
    /\ IF r.panic \/ r.err # "nil"
       THEN /\ pc' = "done"
            /\ err' = IF r.panic THEN "panic" ELSE r.err
            /\ stack' = <<>>
            /\ UNCHANGED obj
       ELSE IF r.act = "recurse"
       THEN /\ stack' = Append(stack, [path |-> path, i |-> 1])
            /\ UNCHANGED <<pc, err, obj>>
       ELSE /\ obj' = PutAt(obj, path, r.val)
            /\ stack' = [stack EXCEPT ![Len(stack)].i = Top.i + 1]
            /\ UNCHANGED <<pc, err>>

FieldAt(fd, path, resp) ==
    FieldDone(fd, path, doParseField(fd, GetAt(obj, path), parsers, resp))

\* one iteration of the loop of parseConfig: doParseField on field i of the
\* innermost record (pars.go:391-397)
DoParseField ==
    /\ pc = "walk"
    /\ Top.i <= Len(TopFields)
    /\ \E resp \in Responses :
          FieldAt(TopFields[Top.i], Top.path \o <<TopFields[Top.i].name>>, resp)
    /\ UNCHANGED <<env, AWS, GCP, target, parsers>>

\* the loop of parseConfig ends (pars.go:400): the activation returns nil to
\* doParseField of the enclosing record, or to ParseWithFuncs
Return ==
    /\ pc = "walk"
    /\ Top.i > Len(TopFields)
    /\ IF Len(stack) = 1
       THEN /\ pc' = "done"
            /\ err' = "nil"
            /\ stack' = <<>>
       ELSE /\ stack' = [SubSeq(stack, 1, Len(stack) - 1) EXCEPT ![Len(stack) - 1].i = stack[Len(stack) - 1].i + 1]
            /\ UNCHANGED <<pc, err>>
    /\ UNCHANGED <<env, AWS, GCP, target, obj, parsers, last, trace, walked>>

Next ==
    \/ Parse
    \/ \E funcMap \in FuncMaps : ParseWithFuncs(funcMap)
    \/ DoParseField
    \/ Return

Spec == Init /\ [][Next]_vars


----------------------------------------------------------------------------
(* Round trips: the environment holds the text ToConnectionString returned *)
(* for a structured value, or a comma-separated list of JWT keys, and the  *)
(* record has one field of that structured type.                           *)

MaxHosts  == 2
MaxTokens == 3

\* the sequences of 1..n elements of S
SeqsUpTo(S, n) == UNION { [1..k -> S] : k \in 1..n }

\* HostPort entries: the empty text, a host, a host with a port, and a host
\* of two bytes above 0x7f
HostPortLists == SeqsUpTo({ <<>>, <<"h">>, <<"h",":","1">>, <<"xc3", "xa9">> }, MaxHosts)

\* passwords: none, a letter, a control byte
Passwords == {<<>>, <<"p">>, <<"x01">>}

PostgresValues ==
    [Username : {<<>>, <<"u">>}, Password : Passwords, HostPort : HostPortLists,
     Database : {<<>>, <<"d">>}, Sslmode : {<<>>, <<"s">>}]
MongoValues ==
    [Username : {<<>>, <<"u">>}, Password : Passwords, HostPort : HostPortLists,
     AuthSource : {<<>>, <<"a">>}, ReplicaSet : {<<>>, <<"r">>}]
RedisValues ==
    [Username : {<<>>, <<"u">>}, Password : Passwords, HostPort : HostPortLists,
     Database : {<<>>, <<"d">>}, ClusterMode : BOOLEAN, SentinelMasterID : {<<>>, <<"m">>}]
KafkaValues ==
    [Username : {<<>>, <<"u">>}, Password : Passwords, HostPort : HostPortLists,
     Topic : {<<>>, <<"t">>}, GroupID : {<<>>, <<"g">>}]

\* strings.Join(tokens, ",")
JWTTexts == { JoinHostPort(ts) : ts \in SeqsUpTo({<<>>, <<"a">>, <<"b">>}, MaxTokens) }

\* the texts the environment may hold for a field of type tn
CodecTexts(tn) ==
    CASE tn = "Postgres" -> { PostgresToConnectionString(x) : x \in PostgresValues }
      [] tn = "Mongo"    -> { MongoToConnectionString(x) : x \in MongoValues }
      [] tn = "Redis"    -> { RedisToConnectionString(x) : x \in RedisValues }
      [] tn = "Kafka"    -> { KafkaToConnectionString(x) : x \in KafkaValues }
      [] tn = "JWT"      -> JWTTexts

\* the environment with text under KeyA and nothing under KeyB
EnvWith(text) == [k \in EnvKeys |-> IF k = KeyA THEN text ELSE <<>>]

InitCodec ==
    /\ \E tn \in StructuredTypes : \E text \in CodecTexts(tn) : \E dirty \in BOOLEAN :
          /\ env = EnvWith(text)
          /\ InitWith(StructTarget(<<StructuredF("V", KeyA, tn)>>, dirty, TRUE))
    /\ AWS = FALSE
    /\ GCP = FALSE

SpecCodec == InitCodec /\ [][Next]_vars

----------------------------------------------------------------------------
(* Integer fields: the environment holds the decimal text of an integer    *)
(* near a power of two, and the record has one integer field.              *)

IntDelta == 2

\* the magnitudes within IntDelta of 1 << k
Near(k) == { MagAdd(Pow2(k), <<d>>) : d \in 0..IntDelta }
              \cup { MagSub(Pow2(k), <<d>>) : d \in 1..IntDelta }

Magnitudes ==
    UNION { Near(k) : k \in {7, 8, 15, 16, 31, 32, 63, 64} }
      \cup { <<d>> : d \in 1..IntDelta } \cup { <<>>, <<5>>, <<2, 0, 0>> }

IntTexts == { MagText(m) : m \in Magnitudes }
              \cup { <<"-">> \o MagText(m) : m \in Magnitudes \ {<<>>} }

InitInt ==
    /\ \E kind \in SignedKinds \cup UnsignedKinds : \E text \in IntTexts :
       \E dirty \in BOOLEAN :
          /\ env = EnvWith(text)
          /\ InitWith(StructTarget(<<IntF("N", KeyA, kind)>>, dirty, TRUE))
    /\ AWS = FALSE
    /\ GCP = FALSE

SpecInt == InitInt /\ [][Next]_vars


----------------------------------------------------------------------------
(* Properties. They are stated over `last`, the most recent call of        *)
(* doParseField, and the state that call left behind.                      *)

\* doParseField has been called on a field
Visited == last.res.act # "none"

\* the annotation of that field: its source key and its flags
LastTags  == Split(last.fd.tag, ",")
LastFlags == Tail(LastTags)
\* the environment value of its source key
LastRaw   == Getenv(LastTags[1])
LastArr   == Split(LastRaw, ":")
\* the field carries the notEmpty flag; every flag it carries is known
Flagged    == \E i \in 1..Len(LastFlags) : LastFlags[i] = Txt_notEmpty
FlagsKnown == \A i \in 1..Len(LastFlags) : LastFlags[i] \in {<<>>, Txt_notEmpty}
\* the field is settable and the resolver returned a value for it
Resolved   == last.fd.exported /\ ~last.res.row.panic /\ last.res.row.err = "nil"
LastValue  == last.res.row.value
\* the value the field holds now
LastNow    == GetAt(obj, last.path)
\* the step made a backend call
BackendCalled ==
    \E i \in 1..Len(last.res.row.events) : last.res.row.events[i].op # "env"
DecodeErrors == {"MalformedValue", "NumericRangeOverflow"}
\* the registry has a built-in parser for the field's type
HasBuiltIn == last.fd.tn \in StructuredTypes \/ last.fd.kind \in BuiltInKinds
\* what the built-in parser of the field's type makes of the resolved value
BuiltInDecoded ==
    IF last.fd.tn \in StructuredTypes THEN StructuredParser(last.fd.tn, LastValue)
    ELSE defaultBuiltInParsers(last.fd.kind, LastValue)
\* v as the value of the field (behind the pointer for a pointer field)
Stored(v) == IF last.fd.ptr THEN PtrTo(v) ELSE v

\* C1: when the call was given an override for the exact type of a field and
\* the field's resolved value is non-empty, the field ends up holding the
\* value the override produced.
C1_OverrideApplied ==
    (/\ Visited /\ Resolved /\ FlagsKnown /\ LastValue # <<>>
     /\ last.fd.tn \in DOMAIN parsers
     /\ parsers[last.fd.tn] = "override"
     /\ err = "nil")
    => LastNow = Stored(OverrideParser(last.fd.tn, LastValue).val)

\* C2 as claimed: a notEmpty field of any type fails with RequiredValueMissing,
\* unassigned and not recursed into, when its resolved value is empty; when it
\* is non-empty the flag causes no error and the field is decoded and assigned.
C2_NotEmptyAnyType ==
    (Visited /\ Resolved /\ Flagged /\ FlagsKnown)
    => IF LastValue = <<>>
       THEN /\ pc = "done"
            /\ err = "RequiredValueMissing"
            /\ LastNow = last.old
            /\ stack = <<>>
       ELSE /\ err # "RequiredValueMissing"
            /\ (err \notin DecodeErrors => last.res.act = "set")

\* C2 amended: a notEmpty field of any type fails with RequiredValueMissing,
\* unassigned and not recursed into, when its resolved value is empty; when it
\* is non-empty the flag causes no error, and the field is decoded and assigned
\* if its type has a built-in parser and (for a pointer field) the pointer is
\* allocated; a type without a parser is left unchanged without an error, a
\* decode failure is returned, and a nil pointer field makes the call panic.
C2_NotEmptyRequired ==
    (Visited /\ Resolved /\ Flagged /\ FlagsKnown)
    => IF LastValue = <<>>
       THEN /\ pc = "done"
            /\ err = "RequiredValueMissing"
            /\ LastNow = last.old
            /\ stack = <<>>
       ELSE IF ~HasBuiltIn
       THEN last.res.act = "noparser" /\ err = "nil" /\ LastNow = last.old
       ELSE IF BuiltInDecoded.err # "nil"
       THEN err = BuiltInDecoded.err /\ err \in DecodeErrors /\ LastNow = last.old
       ELSE IF last.fd.ptr /\ last.old.nil
       THEN err = "panic" /\ LastNow = last.old
       ELSE last.res.act = "set" /\ err = "nil" /\ LastNow = Stored(BuiltInDecoded.val)

\* a notEmpty field of a record type resolved to the empty text and the call
\* failed on it
C2_Witness ==
    /\ Visited /\ Resolved /\ Flagged /\ FlagsKnown
    /\ last.fd.kind = "struct"
    /\ LastValue = <<>>
    /\ err = "RequiredValueMissing"

\* the environment value has the form aws:identifier or gcp:identifier
Indirection == Len(LastArr) >= 2 /\ LastArr[1] \in {Txt_aws, Txt_gcp}

\* C3: an environment value that is not of the form aws:identifier or
\* gcp:identifier (no colon, the bare texts aws and gcp, another scheme, the
\* empty text) is returned verbatim by the resolver, with no error, no backend
\* call and no crash.
C3_VerbatimValue ==
    (Visited /\ last.fd.exported /\ ~Indirection)
    => /\ ~last.res.row.panic
       /\ last.res.row.err = "nil"
       /\ LastValue = LastRaw
       /\ ~BackendCalled

\* the environment value names a backend the Parser does not have
BackendMissing ==
    /\ Len(LastArr) >= 2
    /\ (LastArr[1] = Txt_aws /\ ~AWS) \/ (LastArr[1] = Txt_gcp /\ ~GCP)

\* C4: a field whose environment value uses the aws scheme without an AWS
\* session, or the gcp scheme without a GCP client, makes the call fail with
\* BackendNotConfigured; no backend is called and the field keeps the value it
\* had before the call.
C4_BackendNotConfigured ==
    (Visited /\ last.fd.exported /\ BackendMissing)
    => /\ pc = "done"
       /\ err = "BackendNotConfigured"
       /\ ~BackendCalled
       /\ LastNow = last.old
       /\ LastNow = GetAt(target.obj0, last.path)

\* a field that held a value of the caller's was resolved through a missing
\* backend and the call failed
C4_Witness ==
    /\ Visited /\ last.fd.exported /\ BackendMissing
    /\ err = "BackendNotConfigured"
    /\ last.old = <<"o">>
    /\ LastNow = <<"o">>

\* C5: an argument that is not a pointer, or is a nil pointer (untyped nil or
\* a nil pointer to a record), fails with NotAPointer; a pointer to anything
\* but a record fails with NotAStruct; nothing is looked up and nothing changes.
C5_EntryRejected ==
    (pc = "done" /\ target.argKind # "ptr_struct")
    => /\ err = (IF target.argKind \in {"nonptr", "nil", "nilptr"}
                 THEN "NotAPointer" ELSE "NotAStruct")
       /\ trace = <<>>
       /\ ~Visited
       /\ obj = target.obj0

C7_MongoAuthSource ==
    (Visited /\ last.fd.tn = "Mongo" /\ last.res.act = "set")
    => \A x \in MongoValues :
          LastRaw = MongoToConnectionString(x)
          => /\ LastNow.AuthSource = x.AuthSource
             /\ LastNow.ReplicaSet = x.ReplicaSet
             /\ LastNow.Username = x.Username
             /\ LastNow.Password = x.Password
             /\ LastNow.HostPort = x.HostPort

\* the text ToConnectionString makes of a value x of type tn
ConnectionString(tn, x) ==
    CASE tn = "Postgres" -> PostgresToConnectionString(x)
      [] tn = "Redis"    -> RedisToConnectionString(x)
      [] tn = "Kafka"    -> KafkaToConnectionString(x)
ValuesOf(tn) ==
    CASE tn = "Postgres" -> PostgresValues
      [] tn = "Redis"    -> RedisValues
      [] tn = "Kafka"    -> KafkaValues

\* C8: a Postgres, Redis or Kafka field decoded from the text
\* ToConnectionString made of x is assigned a value equal to x.
C8_RoundTrip ==
    (Visited /\ last.fd.tn \in {"Postgres", "Redis", "Kafka"} /\ Len(last.path) = 1)
    => \A x \in ValuesOf(last.fd.tn) :
          LastRaw = ConnectionString(last.fd.tn, x)
          => /\ last.res.act = "set"
             /\ err = "nil"
             /\ LastNow = x

\* C9: the JWT decoder never fails; SigningKeyAT is the first token of the
\* text split on ",", and SigningKeyRT is the second token whenever there is
\* one (also when there are three or more), else the first.
C9_JWTSecondToken ==
    (Visited /\ last.fd.tn = "JWT" /\ Len(last.path) = 1 /\ LastRaw # <<>>)
    => /\ last.res.act = "set"
       /\ err = "nil"
       /\ LastNow.SigningKeyAT = Split(LastRaw, ",")[1]
       /\ LastNow.SigningKeyRT = (IF Len(Split(LastRaw, ",")) >= 2
                                  THEN Split(LastRaw, ",")[2]
                                  ELSE Split(LastRaw, ",")[1])

\* the integer a decimal text denotes
DecimalValue(text) ==
    IF Head(text) = "-"
    THEN IntVal(TRUE, Norm([i \in 1..(Len(text) - 1) |-> DigitVal(text[i + 1])]))
    ELSE IntVal(FALSE, Norm([i \in 1..Len(text) |-> DigitVal(text[i])]))
\* the kinds with a declared width, and that width
WidthKinds == {"int8", "int16", "int32", "int64", "uint8", "uint16", "uint32", "uint64"}
DeclaredWidth(kind) ==
    CASE kind \in {"int8", "uint8"}   -> 8
      [] kind \in {"int16", "uint16"} -> 16
      [] kind \in {"int32", "uint32"} -> 32
      [] kind \in {"int64", "uint64"} -> 64
\* n lies in the range of the kind
InRange(kind, n) ==
    IF kind \in {"int8", "int16", "int32", "int64"}
    THEN IF n.neg THEN MagLeq(n.mag, Pow2(DeclaredWidth(kind) - 1))
         ELSE MagLess(n.mag, Pow2(DeclaredWidth(kind) - 1))
    ELSE ~n.neg /\ MagLess(n.mag, Pow2(DeclaredWidth(kind)))

\* C10: for an integer field of declared width 8, 16, 32 or 64, a decimal
\* value outside the range of the field's type makes the call fail and leaves
\* the field as it was; a decimal value inside the range is assigned exactly.
C10_IntegerRange ==
    (/\ Visited /\ Resolved /\ FlagsKnown
     /\ last.fd.kind \in WidthKinds
     /\ LastRaw \in IntTexts)
    => IF InRange(last.fd.kind, DecimalValue(LastRaw))
       THEN /\ last.res.act = "set"
            /\ err = "nil"
            /\ LastNow = Stored(DecimalValue(LastRaw))
       ELSE /\ pc = "done"
            /\ err \in DecodeErrors
            /\ LastNow = last.old

\* an 8-bit signed field that held 7 was given "200": the call failed and the
\* field still holds 7
C10_Witness ==
    /\ Visited
    /\ last.fd.kind = "int8"
    /\ LastRaw = <<"2", "0", "0">>
    /\ err = "NumericRangeOverflow"
    /\ last.old = IntVal(FALSE, <<7>>)
    /\ LastNow = last.old

\* C11: a settable field whose annotation carries a flag other than notEmpty
\* makes the call fail with UnsupportedTagOption whatever its environment
\* value is (an aws: or gcp: value with an absent or failing backend
\* included), and no backend lookup is made for that field: the flags are
\* validated before the source key is resolved.
C11_FlagsBeforeResolve ==
    (Visited /\ last.fd.exported /\ ~FlagsKnown)
    => /\ pc = "done"
       /\ err = "UnsupportedTagOption"
       /\ ~BackendCalled
       /\ LastNow = last.old

\* the environment value names a backend the Parser has
BackendPresent ==
    /\ Indirection
    /\ (LastArr[1] = Txt_aws /\ AWS) \/ (LastArr[1] = Txt_gcp /\ GCP)

\* C12: for an environment value scheme:rest with scheme aws or gcp and that
\* backend present, exactly one lookup is made, on that backend, with the
\* whole remainder after the first colon as its key (further colons
\* included); the text the backend returns is the field's resolved value and
\* is not resolved again, also when it begins with aws: or gcp:.
C12_WholeRemainderKey ==
    (Visited /\ last.fd.exported /\ BackendPresent)
    => /\ last.res.row.events =
            <<[op |-> "env", key |-> LastTags[1]],
              [op |-> IF LastArr[1] = Txt_aws THEN "aws" ELSE "gcp",
               key |-> CutAfter(LastRaw, ":")]>>
       /\ ~last.res.row.panic
       /\ (last.res.row.err = "nil" => LastValue \in {r.s : r \in Responses})
       /\ (last.res.act = "set" /\ last.fd.kind = "string" => LastNow = Stored(LastValue))

\* the fields of a record type in walk order: declaration order, the fields
\* of a nested record right after the record itself
RECURSIVE AllPaths(_, _)
AllPaths(fields, prefix) ==
    IF fields = <<>> THEN <<>>
    ELSE <<prefix \o <<Head(fields).name>>>>
         \o (IF IsStruct(Head(fields))
             THEN AllPaths(Head(fields).fields, prefix \o <<Head(fields).name>>)
             ELSE <<>>)
         \o AllPaths(Tail(fields), prefix)
WalkOrder == AllPaths(target.fields, <<>>)
\* the place of a field in the walk order
Pos(path) == CHOOSE i \in 1..Len(WalkOrder) : WalkOrder[i] = path
\* p is a proper ancestor of q
Encloses(p, q) == Len(p) < Len(q) /\ SubSeq(q, 1, Len(p)) = p

\* the value a field had before the call
Before(path) == GetAt(target.obj0, path)
\* what the built-in parser of the type of the field of call h makes of the
\* value resolved for it
KnownParser(h) == h.fd.tn \in StructuredTypes \/ h.fd.kind \in BuiltInKinds
DecodedOf(h) ==
    IF h.fd.tn \in StructuredTypes THEN StructuredParser(h.fd.tn, h.res.row.value)
    ELSE defaultBuiltInParsers(h.fd.kind, h.res.row.value)
HoldsDecoded(h) ==
    /\ h.res.act = "set"
    /\ GetAt(obj, h.path) = (IF h.fd.ptr THEN PtrTo(DecodedOf(h).val) ELSE DecodedOf(h).val)

RECURSIVE EventsOf(_)
EventsOf(calls) ==
    IF calls = <<>> THEN <<>> ELSE Head(calls).res.row.events \o EventsOf(Tail(calls))

\* the call was Parse: a pointer to a record, no override in the registry
ParseReturned ==
    /\ pc = "done"
    /\ target.argKind = "ptr_struct"
    /\ err # "panic"
    /\ \A tn \in DOMAIN parsers : parsers[tn] = "default"

\* the calls of doParseField were made in walk order, on every field up to
\* the place reached except those inside a record that was not entered, and
\* the lookups made are those of these calls
WalkedInOrder ==
    /\ \A i \in 1..Len(walked) : \E j \in 1..Len(WalkOrder) : WalkOrder[j] = walked[i].path
    /\ \A i, j \in 1..Len(walked) : i < j => Pos(walked[i].path) < Pos(walked[j].path)
    /\ \A j \in 1..Len(WalkOrder) :
          (err = "nil" \/ j < Pos(last.path))
          => \/ \E i \in 1..Len(walked) : walked[i].path = WalkOrder[j]
             \/ \E i \in 1..Len(walked) :
                   /\ Encloses(walked[i].path, WalkOrder[j])
                   /\ walked[i].res.act # "recurse"
    /\ trace = EventsOf(walked)

\* the failing field (when there is one) is the last one called, and it and
\* every field after it in walk order hold the values they had before the call
RestUntouched ==
    err # "nil"
    => /\ walked # <<>>
       /\ walked[Len(walked)] = last
       /\ \A j \in 1..Len(WalkOrder) :
             j >= Pos(last.path) => GetAt(obj, WalkOrder[j]) = Before(WalkOrder[j])
       /\ \A i \in 1..Len(walked) : Pos(walked[i].path) <= Pos(last.path)

\* the calls that returned no error: all but the last when the call failed
Succeeded == IF err = "nil" THEN 1..Len(walked) ELSE 1..(Len(walked) - 1)

\* C13 as claimed: the fields are processed in declaration order, depth-first,
\* and the walk stops at the first failing field k: k and every field after
\* it hold the values they had before the call, no lookup was made for the
\* fields after k, and every field before k with a non-empty resolved value
\* holds its decoded value; when Parse returns no error every field with a
\* non-empty resolved value and a known parser holds its decoded value and
\* every other non-record field is unchanged.
C13_WalkStopsAtFirstError ==
    ParseReturned
    => /\ WalkedInOrder
       /\ RestUntouched
       /\ \A i \in Succeeded :
             IF walked[i].res.row.value # <<>> /\ (err # "nil" \/ KnownParser(walked[i]))
             THEN HoldsDecoded(walked[i])
             ELSE IsStruct(walked[i].fd) \/ GetAt(obj, walked[i].path) = Before(walked[i].path)

\* C13 amended: as claimed, except that a field before k holds its decoded
\* value only if its resolved value is non-empty and its type has a known
\* parser; in either outcome a field with a non-empty resolved value and no
\* known parser, and every field with an empty resolved value that is not an
\* entered record, holds the value it had before the call.
C13_WalkFrame ==
    ParseReturned
    => /\ WalkedInOrder
       /\ RestUntouched
       /\ \A i \in Succeeded :
             IF walked[i].res.row.value # <<>> /\ KnownParser(walked[i])
             THEN HoldsDecoded(walked[i])
             ELSE \/ walked[i].res.act = "recurse"
                  \/ GetAt(obj, walked[i].path) = Before(walked[i].path)

\* Parse failed at a field of a nested record after it had assigned an
\* earlier field a new value, with a field still to come
C13_Witness ==
    /\ ParseReturned
    /\ err # "nil"
    /\ Len(last.path) = 2
    /\ Pos(last.path) < Len(WalkOrder)
    /\ \E i \in 1..(Len(walked) - 1) :
          /\ walked[i].res.act = "set"
          /\ GetAt(obj, walked[i].path) # Before(walked[i].path)

====
